---- MODULE Spec2Model ----
(***************************************************************************)
(* A model of obd/OBDCommand.py: the OBDCommand descriptor, its evaluation  *)
(* of a batch of response messages (__call__ and                            *)
(* __constrain_message_data), its mode / pid accessors and its equality     *)
(* and hash.                                                                *)
(*                                                                         *)
(* Byte strings are sequences of byte values (0..255).  Python's None is    *)
(* the integer None (-1) where the other values are non-negative integers   *)
(* and a record of kind "None" where the other values are records.          *)
(***************************************************************************)
EXTENDS Integers, Sequences, FiniteSets, TLC

(* ------------------------------ bounds -------------------------------- *)
\* longest batch of messages handed to __call__
MaxMsgs == 2
\* longest data field of an incoming message
MaxData == 3
\* largest expected byte count (self.bytes) of a descriptor
MaxBytes == 2
\* largest expected frame count (self.frames) of a descriptor
MaxFrames == 2
\* longest command string of a descriptor
MaxCmdLen == 4

(* ----------------------------- constants ------------------------------ *)
\* Python's None among integers (frames=None, mode / pid of a non-hex command)
None == -1
\* the value b'\x00' pads with
PadByte == 0
\* the radix of int(.., 16)
HexBase == 16
\* the number of leading characters of the command that make the mode
ModeLen == 2
\* ECU.ALL, the default of the ecu argument: every bit of the tag byte
ECU_ALL == 255
\* the ecu masks a descriptor is built with: ECU.ALL and a single ECU
CmdEcus == {ECU_ALL, 2}
\* the ecu tags of incoming messages: two single ECUs
MsgEcus == {1, 2}


\* the sequences over S of length 0..n
RECURSIVE SeqsUpTo(_, _)
SeqsUpTo(S, n) ==
    IF n = 0 THEN {<<>>}
    ELSE LET shorter == SeqsUpTo(S, n - 1)
         IN  shorter \cup {Append(s, x) : s \in {t \in shorter : Len(t) = n - 1}, x \in S}

\* n copies of b: b * n
RECURSIVE Repeat(_, _)
Repeat(b, n) == IF n <= 0 THEN <<>> ELSE <<b>> \o Repeat(b, n - 1)

\* the bytes 1, 2, .., n
Ramp(n) == [k \in 1..n |-> k]

\* the data fields of incoming messages: for every length up to MaxData a
\* field of distinct non-zero bytes
DataFields == {Ramp(n) : n \in 0..MaxData}

\* the operator & on non-negative integers
RECURSIVE BitAnd(_, _)
BitAnd(x, y) ==
    IF x = 0 \/ y = 0 THEN 0
    ELSE (x % 2) * (y % 2) + 2 * BitAnd(x \div 2, y \div 2)

VARIABLES
    cmd,        \* the descriptor (self)
    pc,         \* position of the running __call__
    msgs,       \* the message objects of the batch; data is mutated in place
    orig,       \* the batch as it was handed to __call__
    messages,   \* the local list `messages`: references (indices) into msgs
    i,          \* position of the loop `for m in messages`
    log,        \* the warnings given to logger.warning, in order
    err,        \* the OBDError raised, or "none"
    r,          \* the OBDResponse returned, or NoResponse
    decodeArgs, \* the arguments self.decode was called with, one per call
    other,      \* the right-hand side of a comparison
    res         \* the result of the last accessor / comparison / hash

vars == <<cmd, pc, msgs, orig, messages, i, log, err, r, decodeArgs, other, res>>

(* --------------------------- the descriptor --------------------------- *)
\* OBDCommand(name, desc, command, _bytes, decoder, ecu, fast, frames, strict)
OBDCommand(name, desc, command, bytes, decoder, ecu, fast, frames, strict) ==
    [class |-> "OBDCommand",
     name |-> name, desc |-> desc, command |-> command, bytes |-> bytes,
     decode |-> decoder, ecu |-> ecu, fast |-> fast, frames |-> frames,
     strict |-> strict]

\* the command string b"0100"
Cmd0100 == <<48, 49, 48, 48>>

\* the descriptors __call__ is exercised on
EvalCommands ==
    {OBDCommand("PIDS_A", "Supported PIDs", Cmd0100, b, "raw", e, FALSE, f, s) :
        b \in 0..MaxBytes, e \in CmdEcus, f \in {None} \cup (0..MaxFrames),
        s \in BOOLEAN}

\* a message object: an ecu tag and a data field
Message(ecu, data) == [ecu |-> ecu, data |-> data]

\* the batches handed to __call__
Batches ==
    SeqsUpTo({Message(e, d) : e \in MsgEcus, d \in DataFields}, MaxMsgs)

(* ------------------------------ __call__ ------------------------------ *)
\* for_us with >= in place of >
for_us_ge(self, m) == BitAnd(self.ecu, m.ecu) >= 0

\* for_us = lambda m: (self.ecu & m.ecu) > 0
for_us(self, m) == BitAnd(self.ecu, m.ecu) > 0

\* list(filter(for_us, messages)), as the indices of the retained messages
RECURSIVE FilterFrom(_, _, _)
FilterFrom(self, batch, k) ==
    IF k > Len(batch) THEN <<>>
    ELSE (IF for_us(self, batch[k]) THEN <<k>> ELSE <<>>) \o FilterFrom(self, batch, k + 1)

Filter(self, batch) == FilterFrom(self, batch, 1)

\* frames_mismatch without the test for None
frames_mismatch_no_none(self, n) == self.frames # n

\* frames_mismatch that only sees too many frames
frames_mismatch_lt(self, n) == self.frames # None /\ self.frames < n

\* self.frames != None and self.frames != len(messages)
frames_mismatch(self, n) == self.frames # None /\ self.frames # n

\* a warning given to the logger
Notice(kind, expected, got, data) ==
    [kind |-> kind, expected |-> expected, got |-> got, data |-> data]

\* chop that keeps the right side: message.data[-self.bytes:]
chop_left(data, n) == SubSeq(data, Len(data) - n + 1, Len(data))

\* message.data[:self.bytes]
chop(data, n) == SubSeq(data, 1, n)

\* message.data + b'\x00' * (self.bytes - len(message.data))
pad(data, n) == data \o Repeat(PadByte, n - Len(data))

\* what __constrain_message_data does to a data field: the error it raises
\* ("none" when it returns), the data field it leaves and the warnings it logs
Outcome(raise, data, notices) == [raise |-> raise, data |-> data, log |-> notices]

\* constrain_longer that chops before it looks at self.strict
constrain_longer_chop_first(self, data) ==
    IF self.strict
    THEN Outcome("longer", chop(data, self.bytes), <<>>)
    ELSE Outcome("none", chop(data, self.bytes),
                 <<Notice("trimmed", self.bytes, Len(data), chop(data, self.bytes))>>)

\* the branch len(message.data) > self.bytes
constrain_longer(self, data) ==
    IF self.strict
    THEN Outcome("longer", data, <<>>)
    ELSE Outcome("none", chop(data, self.bytes),
                 <<Notice("trimmed", self.bytes, Len(data), chop(data, self.bytes))>>)

\* constrain_shorter that raises whatever self.strict is
constrain_shorter_raise(self, data) == Outcome("shorter", data, <<>>)

\* constrain_shorter that pads without a warning
constrain_shorter_silent(self, data) ==
    IF self.strict
    THEN Outcome("shorter", data, <<>>)
    ELSE Outcome("none", pad(data, self.bytes), <<>>)

\* the branch len(message.data) < self.bytes
constrain_shorter(self, data) ==
    IF self.strict
    THEN Outcome("shorter", data, <<>>)
    ELSE Outcome("none", pad(data, self.bytes),
                 <<Notice("padded", self.bytes, Len(data), pad(data, self.bytes))>>)

\* __constrain_message_data with self.bytes >= 0 in place of self.bytes > 0
constrain_message_data_ge(self, data) ==
    IF self.bytes >= 0
    THEN IF Len(data) > self.bytes THEN constrain_longer(self, data)
         ELSE IF Len(data) < self.bytes THEN constrain_shorter(self, data)
         ELSE Outcome("none", data, <<>>)
    ELSE Outcome("none", data, <<>>)

\* __constrain_message_data
constrain_message_data(self, data) ==
    IF self.bytes > 0
    THEN IF Len(data) > self.bytes THEN constrain_longer(self, data)
         ELSE IF Len(data) < self.bytes THEN constrain_shorter(self, data)
         ELSE Outcome("none", data, <<>>)
    ELSE Outcome("none", data, <<>>)

\* no accessor, comparison or hash has been evaluated
NoResult == [op |-> "none"]

\* no response: __call__ has not returned, or it raised
NoResponse == [kind |-> "None"]
\* r.value of a response that was not decoded
NoValue == [kind |-> "None"]

\* OBDResponse(self, messages): value is None until it is set
OBDResponse(self, ms) ==
    [kind |-> "OBDResponse", command |-> self, messages |-> ms, value |-> NoValue]

\* the data fields of the messages the list ms refers to
DataOf(objs, ms) == [k \in 1..Len(ms) |-> objs[ms[k]].data]

\* self.decode(messages): the decoder of these descriptors returns the data
\* it was given
decode(self, datas) == [kind |-> "value", decoder |-> self.decode, data |-> datas]

TypeOK ==
    /\ pc \in {"idle", "frames", "constrain", "done", "raised"}
    /\ err \in {"none", "frames", "longer", "shorter"}
    /\ i \in 0..(MaxMsgs + 1)

Idle ==
    /\ pc = "idle"
    /\ msgs = <<>> /\ orig = <<>> /\ messages = <<>> /\ i = 0
    /\ log = <<>> /\ err = "none" /\ r = NoResponse /\ decodeArgs = <<>>
    /\ other = NoResponse /\ res = NoResult

Init ==
    /\ cmd \in EvalCommands
    /\ Idle

\* __call__(messages): the batch arrives and is filtered
Call ==
    /\ pc = "idle"
    /\ \E batch \in Batches :
        /\ msgs' = batch
        /\ orig' = batch
        /\ messages' = Filter(cmd, batch)
    /\ pc' = "frames"
    /\ UNCHANGED <<cmd, i, log, err, r, decodeArgs, other, res>>

\* the frame count check: raise when strict, warn otherwise
CheckFrames ==
    /\ pc = "frames"
    /\ IF frames_mismatch(cmd, Len(messages))
       THEN IF cmd.strict
            THEN /\ err' = "frames"
                 /\ pc' = "raised"
                 /\ UNCHANGED <<i, log>>
            ELSE /\ log' = Append(log, Notice("frames", cmd.frames, Len(messages), <<>>))
                 /\ pc' = "constrain"
                 /\ i' = 1
                 /\ UNCHANGED err
       ELSE /\ pc' = "constrain"
            /\ i' = 1
            /\ UNCHANGED <<log, err>>
    /\ UNCHANGED <<cmd, msgs, orig, messages, r, decodeArgs, other, res>>

\* one turn of `for m in messages: self.__constrain_message_data(m)`
Constrain ==
    /\ pc = "constrain"
    /\ i <= Len(messages)
    /\ LET c == constrain_message_data(cmd, msgs[messages[i]].data)
       IN  /\ msgs' = [msgs EXCEPT ![messages[i]].data = c.data]
           /\ log' = log \o c.log
           /\ IF c.raise # "none"
              THEN /\ err' = c.raise
                   /\ pc' = "raised"
                   /\ UNCHANGED i
              ELSE /\ i' = i + 1
                   /\ UNCHANGED <<err, pc>>
    /\ UNCHANGED <<cmd, orig, messages, r, decodeArgs, other, res>>

\* the response is built, decoded when there are messages, and returned
Respond ==
    /\ pc = "constrain"
    /\ i > Len(messages)
    /\ IF messages # <<>>
       THEN /\ r' = [OBDResponse(cmd, messages) EXCEPT
                        !.value = decode(cmd, DataOf(msgs, messages))]
            /\ decodeArgs' = Append(decodeArgs, DataOf(msgs, messages))
            /\ UNCHANGED log
       ELSE /\ r' = OBDResponse(cmd, messages)
            /\ log' = Append(log, Notice("none", 0, 0, <<>>))
            /\ UNCHANGED decodeArgs
    /\ pc' = "done"
    /\ UNCHANGED <<cmd, msgs, orig, messages, i, err, other, res>>

Next == Call \/ CheckFrames \/ Constrain \/ Respond

Spec == Init /\ [][Next]_vars

(* ----------------------------- mode / pid ----------------------------- *)
\* the bytes command strings are made of: "0", "1", "a", "Z", the two bytes
\* of the UTF-8 encoding of U+00E9, and 0xFF, which no UTF-8 text contains
CmdBytes == {48, 49, 97, 90, 195, 169, 255}

\* the descriptors whose mode and pid are read
ParseCommands ==
    {OBDCommand("CMD", "a command", c, 0, "raw", ECU_ALL, FALSE, None, FALSE) :
        c \in SeqsUpTo(CmdBytes, MaxCmdLen)}

\* bytes.decode(): the code points of a UTF-8 byte string, or ok = FALSE for
\* UnicodeDecodeError.  One- and two-byte encodings are decoded (CmdBytes has
\* no lead byte of a longer one); every other byte is invalid.
RECURSIVE bytes_decode(_)
bytes_decode(bs) ==
    IF bs = <<>> THEN [ok |-> TRUE, text |-> <<>>]
    ELSE IF bs[1] < 128 THEN
        LET rest == bytes_decode(Tail(bs))
        IN  [ok |-> rest.ok, text |-> <<bs[1]>> \o rest.text]
    ELSE IF bs[1] \in 194..223 /\ Len(bs) >= 2 /\ bs[2] \in 128..191 THEN
        LET rest == bytes_decode(SubSeq(bs, 3, Len(bs)))
        IN  [ok |-> rest.ok,
             text |-> <<(bs[1] - 192) * 64 + (bs[2] - 128)>> \o rest.text]
    ELSE [ok |-> FALSE, text |-> <<>>]

\* the value of a character of string.hexdigits, None for any other
HexDigit(c) ==
    IF c \in 48..57 THEN c - 48
    ELSE IF c \in 65..70 THEN c - 55
    ELSE IF c \in 97..102 THEN c - 87
    ELSE None

\* utils.isHex: every character is a hexadecimal digit
isHex(text) == \A k \in 1..Len(text) : HexDigit(text[k]) # None

\* int(s, 16) of a string of hexadecimal digits
RECURSIVE int16(_)
int16(s) ==
    IF s = <<>> THEN 0
    ELSE HexBase * int16(SubSeq(s, 1, Len(s) - 1)) + HexDigit(s[Len(s)])

\* what a property read gives: a value (None included) or an exception
Returned(v) == [raised |-> FALSE, value |-> v]
Raised == [raised |-> TRUE, value |-> None]

\* the property mode
mode(self) ==
    IF Len(self.command) >= ModeLen
    THEN LET t == bytes_decode(self.command)
         IN  IF ~t.ok THEN Raised
             ELSE IF isHex(t.text)
                  THEN Returned(int16(SubSeq(self.command, 1, ModeLen)))
                  ELSE Returned(None)
    ELSE Returned(None)

\* the property pid
pid(self) ==
    IF Len(self.command) > ModeLen
    THEN LET t == bytes_decode(self.command)
         IN  IF ~t.ok THEN Raised
             ELSE IF isHex(t.text)
                  THEN Returned(int16(SubSeq(self.command, ModeLen + 1, Len(self.command))))
                  ELSE Returned(None)
    ELSE Returned(None)

InitParse ==
    /\ cmd \in ParseCommands
    /\ Idle

\* cmd.mode is read
ReadMode ==
    /\ pc = "idle"
    /\ res' = [op |-> "mode", result |-> mode(cmd)]
    /\ UNCHANGED <<cmd, pc, msgs, orig, messages, i, log, err, r, decodeArgs, other>>

\* cmd.pid is read
ReadPid ==
    /\ pc = "idle"
    /\ res' = [op |-> "pid", result |-> pid(cmd)]
    /\ UNCHANGED <<cmd, pc, msgs, orig, messages, i, log, err, r, decodeArgs, other>>

NextParse == ReadMode \/ ReadPid

SpecParse == InitParse /\ [][NextParse]_vars

(* ------------------------- equality and hash -------------------------- *)
\* the command string b"010C"
Cmd010C == <<48, 49, 48, 67>>

\* descriptors that differ in their command string and in their other fields
IdCommands ==
    {OBDCommand(n, d, c, b, dec, e, FALSE, f, s) :
        n \in {"PIDS_A", "RPM"}, d \in {"Supported PIDs", "Engine RPM"},
        c \in {Cmd0100, Cmd010C}, b \in {0, MaxBytes}, dec \in {"raw", "pid"},
        e \in {ECU_ALL}, f \in {None}, s \in BOOLEAN}

\* values that are no OBDCommand: None, a byte string, and an object of
\* another class that has a command attribute
NonCommands ==
    {[class |-> "NoneType"]}
    \cup {[class |-> "bytes", value |-> c] : c \in {Cmd0100, Cmd010C}}
    \cup {[class |-> "object", command |-> c] : c \in {Cmd0100, Cmd010C}}

\* isinstance(other, OBDCommand)
isinstance_OBDCommand(x) == x.class = "OBDCommand"

\* hash() of a byte string: a function of its bytes, kept to 16 bits here
RECURSIVE bytes_hash(_)
bytes_hash(s) ==
    IF s = <<>> THEN 0
    ELSE (31 * bytes_hash(SubSeq(s, 1, Len(s) - 1)) + s[Len(s)]) % 65536

\* __hash__
hash(self) == bytes_hash(self.command)

\* __eq__ that compares the name as well
eq_with_name(self, x) ==
    IF isinstance_OBDCommand(x)
    THEN self.command = x.command /\ self.name = x.name
    ELSE FALSE

\* __eq__
eq(self, x) ==
    IF isinstance_OBDCommand(x) THEN self.command = x.command ELSE FALSE

InitId ==
    /\ cmd \in IdCommands
    /\ Idle

\* cmd == x is evaluated
Compare ==
    /\ pc = "idle"
    /\ \E x \in IdCommands \cup NonCommands :
        /\ other' = x
        /\ res' = [op |-> "eq", result |-> eq(cmd, x)]
    /\ pc' = "done"
    /\ UNCHANGED <<cmd, msgs, orig, messages, i, log, err, r, decodeArgs>>

\* hash(cmd) and hash(x) of another descriptor x are evaluated
Hash ==
    /\ pc = "idle"
    /\ \E x \in IdCommands :
        /\ other' = x
        /\ res' = [op |-> "hash", result |-> hash(cmd), of_other |-> hash(x)]
    /\ pc' = "done"
    /\ UNCHANGED <<cmd, msgs, orig, messages, i, log, err, r, decodeArgs>>

NextId == Compare \/ Hash

SpecId == InitId /\ [][NextId]_vars

(* ======================= properties of __call__ ======================= *)
\* __call__ has ended: it returned or it raised
Finished == pc \in {"done", "raised"}

\* the positions of the batch whose ecu tag intersects the descriptor's mask
RelevantSet == {k \in 1..Len(orig) : BitAnd(cmd.ecu, orig[k].ecu) > 0}

\* a response was returned
HasResponse == r # NoResponse /\ r.kind = "OBDResponse"

\* the data field d brought to length n: its first bytes, then zero bytes
Normalized(d, n) == [j \in 1..n |-> IF j <= Len(d) THEN d[j] ELSE 0]

\* the last warning is the "no acceptable messages" one
EndsWithNone == log # <<>> /\ log[Len(log)].kind = "none"

(* ---- C3 ---- *)
\* C3: the list `messages`, the message list of the response and the list the
\* decoder gets hold exactly the messages of the batch whose ecu tag
\* intersects self.ecu, each once and in input order, and the filter raises
\* nothing.
C3_FilterExact ==
    /\ pc # "idle" =>
        /\ \A j \in 1..Len(messages) : messages[j] \in RelevantSet
        /\ \A k \in RelevantSet : \E j \in 1..Len(messages) : messages[j] = k
        /\ \A j1, j2 \in 1..Len(messages) : j1 < j2 => messages[j1] < messages[j2]
        /\ \A k \in 1..Len(orig) : msgs[k].ecu = orig[k].ecu
    /\ pc = "frames" => err = "none"
    /\ pc = "done" =>
        /\ HasResponse
        /\ r.messages = messages
        /\ \A a \in 1..Len(decodeArgs) : Len(decodeArgs[a]) = Cardinality(RelevantSet)

\* a response was returned that kept some messages of the batch and dropped
\* others
C3_Witness ==
    /\ pc = "done"
    /\ HasResponse
    /\ Len(r.messages) = 1
    /\ Len(orig) = 2
    /\ r.messages[1] = 2

(* ---- C1 ---- *)
\* C1 as stated: with no relevant message __call__ never raises, strict or
\* not and whatever self.frames is: it returns a response without a value and
\* warns "no acceptable messages".
C1_NoRelevantNeverError ==
    (Finished /\ messages = <<>>) =>
        /\ pc = "done"
        /\ err = "none"
        /\ HasResponse
        /\ r.value = NoValue
        /\ EndsWithNone

\* C1 amended: with no relevant message __call__ returns a response without a
\* value and warns "no acceptable messages" when the descriptor is lenient or
\* self.frames is None or 0; a strict descriptor whose self.frames is set and
\* not 0 raises the frame count error and returns nothing.
C1_NoRelevantAmended ==
    (Finished /\ messages = <<>>) =>
        IF cmd.strict /\ cmd.frames # None /\ cmd.frames # 0
        THEN /\ pc = "raised"
             /\ err = "frames"
             /\ r = NoResponse
             /\ decodeArgs = <<>>
        ELSE /\ pc = "done"
             /\ err = "none"
             /\ HasResponse
             /\ r.value = NoValue
             /\ decodeArgs = <<>>
             /\ EndsWithNone

\* a strict descriptor returned from a batch the filter emptied
C1_Witness ==
    /\ pc = "done"
    /\ cmd.strict
    /\ orig # <<>>
    /\ messages = <<>>
    /\ HasResponse

(* ---- C2 ---- *)
\* the retained count differs from the expected frame count
FrameCountDiffers == cmd.frames # None /\ cmd.frames # Len(messages)

\* C2, the strict half, which both statements share
C2_StrictFails ==
    (Finished /\ FrameCountDiffers /\ cmd.strict) =>
        /\ pc = "raised"
        /\ r = NoResponse
        /\ decodeArgs = <<>>

\* C2 as stated: a strict descriptor fails on a retained count other than
\* self.frames; a lenient one returns a response whose value is the decoder's
\* result.
C2_FrameCount ==
    /\ C2_StrictFails
    /\ (Finished /\ FrameCountDiffers /\ ~cmd.strict) =>
        /\ pc = "done"
        /\ HasResponse
        /\ r.value # NoValue
        /\ r.value.kind = "value"
        /\ r.value.data = DataOf(msgs, r.messages)

\* C2 amended: a strict descriptor fails on a retained count other than
\* self.frames; a lenient one returns a response, whose value is the
\* decoder's result when a message was retained and is absent when none was.
C2_FrameCountAmended ==
    /\ C2_StrictFails
    /\ (Finished /\ FrameCountDiffers /\ ~cmd.strict) =>
        /\ pc = "done"
        /\ HasResponse
        /\ IF messages # <<>>
           THEN /\ r.value # NoValue
                /\ r.value.kind = "value"
                /\ r.value.data = DataOf(msgs, r.messages)
                /\ decodeArgs = <<DataOf(msgs, r.messages)>>
           ELSE /\ r.value = NoValue
                /\ decodeArgs = <<>>

\* a lenient descriptor decoded a batch with more frames than expected
C2_Witness ==
    /\ pc = "done"
    /\ ~cmd.strict
    /\ cmd.frames = 1
    /\ Len(messages) = 2
    /\ HasResponse
    /\ r.value # NoValue

(* ---- C4 ---- *)
\* C4: when a lenient descriptor with self.bytes = N > 0 has returned, every
\* retained message's data is N bytes long: its first bytes as they were,
\* then zero bytes; the decoder got the data in this form.
C4_LenientNormalizes ==
    (pc = "done" /\ ~cmd.strict /\ cmd.bytes > 0) =>
        /\ \A j \in 1..Len(messages) :
            /\ Len(msgs[messages[j]].data) = cmd.bytes
            /\ msgs[messages[j]].data = Normalized(orig[messages[j]].data, cmd.bytes)
            /\ Len(orig[messages[j]].data) = cmd.bytes =>
                  msgs[messages[j]].data = orig[messages[j]].data
        /\ \A a \in 1..Len(decodeArgs) :
            decodeArgs[a] =
                [j \in 1..Len(messages) |-> Normalized(orig[messages[j]].data, cmd.bytes)]

\* a lenient descriptor returned after truncating one message and padding
\* another
C4_Witness ==
    /\ pc = "done"
    /\ ~cmd.strict
    /\ cmd.bytes > 0
    /\ decodeArgs # <<>>
    /\ \E j \in 1..Len(messages) : Len(orig[messages[j]].data) > cmd.bytes
    /\ \E j \in 1..Len(messages) :
        /\ Len(orig[messages[j]].data) < cmd.bytes
        /\ Len(orig[messages[j]].data) > 0

(* ---- C5 ---- *)
\* a retained message whose data is not self.bytes long
Offending(j) == Len(orig[messages[j]].data) # cmd.bytes
SomeOffending == \E j \in 1..Len(messages) : Offending(j)
FirstOffending == CHOOSE j \in 1..Len(messages) :
                      Offending(j) /\ \A j2 \in 1..(j - 1) : ~Offending(j2)

\* what both statements of C5 share: no response, no decoding, no message of
\* the batch touched
C5_FailsClean ==
    /\ pc = "raised"
    /\ r = NoResponse
    /\ decodeArgs = <<>>
    /\ msgs = orig

\* C5 as stated: a strict descriptor with self.bytes = N > 0 fails with the
\* too long / too short error when a retained message is not N bytes long,
\* returns nothing, decodes nothing and leaves every message as it was.
C5_StrictPayload ==
    (Finished /\ cmd.strict /\ cmd.bytes > 0 /\ SomeOffending) =>
        /\ C5_FailsClean
        /\ err \in {"longer", "shorter"}

\* C5 amended: such a call fails, returns nothing, decodes nothing and leaves
\* every message as it was; the error is the frame count error when
\* self.frames is set and differs from the retained count, and otherwise the
\* too long / too short error of the first offending message.
C5_StrictPayloadAmended ==
    (Finished /\ cmd.strict /\ cmd.bytes > 0 /\ SomeOffending) =>
        /\ C5_FailsClean
        /\ err = IF FrameCountDiffers THEN "frames"
                 ELSE IF Len(orig[messages[FirstOffending]].data) > cmd.bytes
                      THEN "longer"
                      ELSE "shorter"

\* a strict descriptor raised on the second retained message, which was too
\* long, after a first one of the right length
C5_Witness ==
    /\ pc = "raised"
    /\ cmd.strict
    /\ cmd.bytes > 0
    /\ err = "longer"
    /\ Len(messages) = 2
    /\ i = 2

(* ---- C6 ---- *)
\* C6: with self.bytes = 0 no message's data is ever changed and no payload
\* length error is raised.
C6_ZeroBytesNoChange ==
    cmd.bytes = 0 =>
        /\ msgs = orig
        /\ err \notin {"longer", "shorter"}
        /\ \A n \in 1..Len(log) : log[n].kind \notin {"trimmed", "padded"}

\* a strict descriptor with self.bytes = 0 returned from a batch that held a
\* message with data and a message without
C6_Witness ==
    /\ cmd.bytes = 0
    /\ pc = "done"
    /\ cmd.strict
    /\ \E j \in 1..Len(messages) : Len(orig[messages[j]].data) > 0
    /\ \E j \in 1..Len(messages) : Len(orig[messages[j]].data) = 0

(* ---- C7 ---- *)
\* C7: a lenient descriptor never raises and never stops short of returning;
\* the response it returns has a value exactly when a message was retained,
\* and then the decoder was called exactly once, and otherwise never.
C7_LenientTotal ==
    ~cmd.strict =>
        /\ pc # "raised"
        /\ err = "none"
        /\ pc \in {"frames", "constrain"} => ENABLED (CheckFrames \/ Constrain \/ Respond)
        /\ pc # "done" => decodeArgs = <<>> /\ r = NoResponse
        /\ pc = "done" =>
            /\ HasResponse
            /\ (r.value # NoValue) <=> (messages # <<>>)
            /\ Len(decodeArgs) = IF messages # <<>> THEN 1 ELSE 0

\* a lenient descriptor returned a value from a batch with a wrong frame
\* count and a short message
C7_Witness ==
    /\ ~cmd.strict
    /\ pc = "done"
    /\ FrameCountDiffers
    /\ cmd.bytes > 0
    /\ \E j \in 1..Len(messages) : Len(orig[messages[j]].data) < cmd.bytes
    /\ HasResponse
    /\ r.value # NoValue

(* ---- C10 ---- *)
\* the warning the frame count check owes
FrameNotices ==
    IF FrameCountDiffers
    THEN <<Notice("frames", cmd.frames, Len(messages), <<>>)>>
    ELSE <<>>

\* the warning the retained message j owes: one when its data was not
\* self.bytes long, carrying the corrected data
MessageNotice(j) ==
    LET d == orig[messages[j]].data
    IN  IF cmd.bytes > 0 /\ Len(d) > cmd.bytes
        THEN <<Notice("trimmed", cmd.bytes, Len(d), Normalized(d, cmd.bytes))>>
        ELSE IF cmd.bytes > 0 /\ Len(d) < cmd.bytes
        THEN <<Notice("padded", cmd.bytes, Len(d), Normalized(d, cmd.bytes))>>
        ELSE <<>>

\* the warnings the first n retained messages owe, in input order
RECURSIVE MessageNotices(_)
MessageNotices(n) == IF n = 0 THEN <<>> ELSE MessageNotices(n - 1) \o MessageNotice(n)

\* C10: a lenient call warns of the frame count first, before any data is
\* changed, then of every corrected message in input order, each once its
\* data is corrected, and last, in place of decoding, of an empty retained
\* list; it warns of nothing else.
C10_LenientNotices ==
    ~cmd.strict =>
        /\ pc \in {"idle", "frames"} => log = <<>> /\ msgs = orig
        /\ pc = "constrain" =>
            /\ log = FrameNotices \o MessageNotices(i - 1)
            /\ \A j \in i..Len(messages) : msgs[messages[j]] = orig[messages[j]]
            /\ \A j \in 1..(i - 1) :
                 MessageNotice(j) # <<>> =>
                     MessageNotice(j)[1].data = msgs[messages[j]].data
            /\ decodeArgs = <<>>
        /\ pc = "done" =>
            log = FrameNotices \o MessageNotices(Len(messages))
                  \o (IF messages = <<>> THEN <<Notice("none", 0, 0, <<>>)>> ELSE <<>>)

\* a lenient call warned of the frame count, then of a trimmed and of a
\* padded message, and decoded
C10_Witness ==
    /\ ~cmd.strict
    /\ pc = "done"
    /\ Len(log) = 3
    /\ log[1].kind = "frames"
    /\ log[2].kind = "trimmed"
    /\ log[3].kind = "padded"
    /\ decodeArgs # <<>>

(* ================= properties of equality and of hash ================= *)
(* ---- C8 ---- *)
\* C8: a descriptor equals another descriptor exactly when their command
\* strings are equal, whatever their other fields; it equals no value that is
\* not a descriptor; its hash is that of its command string, so descriptors
\* with equal command strings have equal hashes.
C8_Identity ==
    /\ res.op = "eq" =>
        /\ other \in IdCommands => (res.result <=> cmd.command = other.command)
        /\ other \in NonCommands => res.result = FALSE
    /\ res.op = "hash" =>
        /\ res.result = bytes_hash(cmd.command)
        /\ cmd.command = other.command => res.result = res.of_other

\* a descriptor compared equal to one that shares its command string and
\* nothing else
C8_Witness ==
    /\ res.op = "eq"
    /\ res.result = TRUE
    /\ other \in IdCommands
    /\ other.name # cmd.name
    /\ other.desc # cmd.desc
    /\ other.bytes # cmd.bytes
    /\ other.decode # cmd.decode
    /\ other.strict # cmd.strict

(* ==================== properties of mode and of pid =================== *)
\* every byte of the command string is a hexadecimal digit
ValidHex(c) ==
    \A k \in 1..Len(c) :
        c[k] \in (48..57) \cup (65..70) \cup (97..102)

\* the base-16 value of the characters first..last of c
RECURSIVE HexValue(_, _, _)
HexValue(c, first, last) ==
    IF last < first THEN 0
    ELSE 16 * HexValue(c, first, last - 1) + HexDigit(c[last])

(* ---- C9 ---- *)
\* C9: mode is the base-16 value of the first two characters when the command
\* string has at least 2 characters and is all hexadecimal; pid is the
\* base-16 value of the characters after the first two when it has more than
\* 2 and is all hexadecimal; in every other case the accessor gives None and
\* raises nothing.
C9_ModePid ==
    /\ res.op = "mode" =>
        res.result =
            IF Len(cmd.command) >= 2 /\ ValidHex(cmd.command)
            THEN Returned(HexValue(cmd.command, 1, 2))
            ELSE Returned(None)
    /\ res.op = "pid" =>
        res.result =
            IF Len(cmd.command) > 2 /\ ValidHex(cmd.command)
            THEN Returned(HexValue(cmd.command, 3, Len(cmd.command)))
            ELSE Returned(None)

====
